---- MODULE Spec2Model ----
(***************************************************************************)
(* Model of full-pipeline-demo-poly-pixels-ml-poly.py: a linear script     *)
(* that loads a satellite image and its training polygons, rasterises the  *)
(* polygons into a mask, trains a pixel classifier, thresholds the         *)
(* prediction, vectorises it with mask_to_polygons and scores the result.  *)
(*                                                                         *)
(* The module holds five specifications over one set of variables:         *)
(*   Spec        the script as a whole (control flow, files, failures)     *)
(*   SpecScale   get_scalers, shapely.affinity.scale and int_coords        *)
(*   SpecMask    mask_for_polygons                                         *)
(*   SpecJaccard the pixel-level Jaccard of lines 127-130                  *)
(*   SpecPoly    mask_to_polygons                                          *)
(* A specification leaves the variables of the others at their idle value. *)
(***************************************************************************)
EXTENDS Integers, Sequences, FiniteSets

VARIABLES
    \* ---- the script (Spec)
    pc,             \* next statement group of the script, "done" or "failed"
    fs,             \* the file system: path -> [exists, data]
    opened,         \* path -> number of times the script opened it
    x_max, y_min,   \* line 23/26: None or a float
    train_polygons, \* line 30/33: None or the loaded geometry
    im_size,        \* line 38: None or <<h, w>>
    scalers,        \* line 49: None or <<x_scaler, y_scaler>>
    stages,         \* the stages completed so far, in order
    stdout,         \* the labels printed so far
    error,          \* the uncaught exception, or None
    \* ---- scaling (SpecScale)
    sc_pc, sc_in, sc_pt, sc_px,
    \* ---- mask_for_polygons (SpecMask)
    mk_pc, polygons, img_mask,
    \* ---- pixel Jaccard (SpecJaccard)
    jc_pc, pred_binary_mask, train_mask, tp, fp, fn,
    \* ---- mask_to_polygons (SpecPoly)
    mp_pc, contours, buffered, all_polygons, mp_ret

pipeVars  == <<pc, fs, opened, x_max, y_min, train_polygons, im_size, scalers,
               stages, stdout, error>>
scaleVars == <<sc_pc, sc_in, sc_pt, sc_px>>
maskVars  == <<mk_pc, polygons, img_mask>>
jacVars   == <<jc_pc, pred_binary_mask, train_mask, tp, fp, fn>>
polyVars  == <<mp_pc, contours, buffered, all_polygons, mp_ret>>
vars      == <<pipeVars, scaleVars, maskVars, jacVars, polyVars>>

None == "None"

\* the idle values of each group of variables
PipeIdle ==
    /\ pc = "idle" /\ fs = None /\ opened = None /\ x_max = None /\ y_min = None
    /\ train_polygons = None /\ im_size = None /\ scalers = None
    /\ stages = <<>> /\ stdout = <<>> /\ error = None
ScaleIdle == sc_pc = "idle" /\ sc_in = None /\ sc_pt = None /\ sc_px = None
MaskIdle  == mk_pc = "idle" /\ polygons = None /\ img_mask = None
JacIdle   ==
    /\ jc_pc = "idle" /\ pred_binary_mask = None /\ train_mask = None
    /\ tp = None /\ fp = None /\ fn = None
PolyIdle  ==
    /\ mp_pc = "idle" /\ contours = None /\ buffered = None
    /\ all_polygons = None /\ mp_ret = None

(***************************************************************************)
(* Floating point.  Python floats are IEEE-754 binary64: every arithmetic  *)
(* result is the exact result rounded to the nearest value with a 53-bit   *)
(* significand, ties to even.  The model keeps that rounding rule and      *)
(* takes the significand width as the parameter Precision (the exponent    *)
(* range is not bounded: no overflow or underflow).  A float is <<m, e>>,  *)
(* the value m * 2^e, with 2^(Precision-1) <= |m| < 2^Precision, or <<0,0>>*)
(***************************************************************************)
Precision == 6

RECURSIVE Pow2(_)
Pow2(n) == IF n <= 0 THEN 1 ELSE 2 * Pow2(n - 1)

Abs(i) == IF i < 0 THEN -i ELSE i
Sgn(i) == IF i < 0 THEN -1 ELSE 1

\* a/d * 2^e with a, d > 0, brought to 2^(Precision-1) <= a/d < 2^Precision
RECURSIVE Normalise(_, _, _)
Normalise(a, d, e) ==
    IF a >= d * Pow2(Precision) THEN Normalise(a, 2 * d, e + 1)
    ELSE IF a < d * Pow2(Precision - 1) THEN Normalise(2 * a, d, e - 1)
    ELSE <<a, d, e>>

\* round-half-to-even of a/d (a >= 0, d > 0) to an integer
RoundHalfEvenQ(a, d) ==
    LET q == a \div d
        r == a % d
    IN  IF 2 * r > d \/ (2 * r = d /\ q % 2 = 1) THEN q + 1 ELSE q

\* the float nearest to (n/d) * 2^e, d > 0
FlRound(n, d, e) ==
    IF n = 0 THEN <<0, 0>>
    ELSE LET t == Normalise(Abs(n), d, e)
             m == RoundHalfEvenQ(t[1], t[2])
         IN  IF m = Pow2(Precision)
             THEN <<Sgn(n) * Pow2(Precision - 1), t[3] + 1>>
             ELSE <<Sgn(n) * m, t[3]>>

FromInt(i)  == FlRound(i, 1, 0)
FMul(x, y)  == FlRound(x[1] * y[1], 1, x[2] + y[2])
FDiv(x, y)  == FlRound(Sgn(y[1]) * x[1], Abs(y[1]), x[2] - y[2])
FIsZero(x)  == x[1] = 0

\* float(s) of line 26 and the coordinate parsing of wkt.loads: the decimal
\* n/d rounded to the nearest float
ParseFloat(dec) == FlRound(dec[1], dec[2], 0)

(***************************************************************************)
(* Scaling: get_scalers (42-46), shapely.affinity.scale about the origin   *)
(* (51-52, 180-181) and int_coords (60).                                   *)
(***************************************************************************)
MaxDim == 3

\* get_scalers with h and w taken from im_size in the other order
get_scalers_flipped(size, xmax, ymin) ==
    LET h  == size[2]
        w  == size[1]
        w_ == FMul(FromInt(w), FlRound(w, w + 1, 0))
        h_ == FMul(FromInt(h), FlRound(h, h + 1, 0))
    IN  <<FDiv(w_, xmax), FDiv(h_, ymin)>>

\* lines 42-46 (Python 3: / is true division); x_max and y_min are non-zero
\* floats here, im_size = <<h, w>>
get_scalers(size, xmax, ymin) ==
    LET h  == size[1]
        w  == size[2]
        w_ == FMul(FromInt(w), FlRound(w, w + 1, 0))
        h_ == FMul(FromInt(h), FlRound(h, h + 1, 0))
    IN  <<FDiv(w_, xmax), FDiv(h_, ymin)>>

\* shapely.affinity.scale(geom, xfact, yfact, origin=(0, 0, 0)) on one
\* coordinate pair: x' = xfact * x + 0, y' = yfact * y + 0
affinity_scale(pt, xfact, yfact) == <<FMul(xfact, pt[1]), FMul(yfact, pt[2])>>

\* the inverse factors with 1 / x_scaler used for both axes
inverse_scalers_both_x(s) == <<FDiv(FromInt(1), s[1]), FDiv(FromInt(1), s[1])>>

\* 1 / x_scaler, 1 / y_scaler of line 181
inverse_scalers(s) == <<FDiv(FromInt(1), s[1]), FDiv(FromInt(1), s[2])>>

\* np.array(x).round().astype(np.int32) on one number: numpy rounds halves
\* to the even integer
RoundToInt(x) ==
    IF x[2] >= 0 THEN x[1] * Pow2(x[2])
    ELSE Sgn(x[1]) * RoundHalfEvenQ(Abs(x[1]), Pow2(-x[2]))

int_coords(pt) == <<RoundToInt(pt[1]), RoundToInt(pt[2])>>

\* decimal literals <<n, d>> as they stand in grid_sizes.csv and in the WKT
XMaxDecimals   == {<<9, 1000>>, <<3, 1>>, <<5, 1>>, <<0, 1>>, <<-5, 1>>}
YMinDecimals   == {<<-9, 1000>>, <<-3, 1>>, <<-5, 1>>, <<0, 1>>, <<5, 1>>}
XCoordDecimals == {<<0, 1>>, <<3, 1000>>, <<9, 1000>>, <<3, 1>>, <<5, 1>>,
                   <<7, 1>>}
YCoordDecimals == {<<0, 1>>, <<-3, 1000>>, <<-9, 1000>>, <<-3, 1>>, <<-5, 1>>,
                   <<-7, 1>>, <<3, 1>>, <<5, 1>>}

ScaleInputs ==
    [im_size : (1..MaxDim) \X (1..MaxDim),
     x_max   : {ParseFloat(d) : d \in XMaxDecimals},
     y_min   : {ParseFloat(d) : d \in YMinDecimals},
     pt      : {ParseFloat(d) : d \in XCoordDecimals}
               \X {ParseFloat(d) : d \in YCoordDecimals}]

InitScale ==
    /\ PipeIdle /\ MaskIdle /\ JacIdle /\ PolyIdle
    /\ sc_pc = "start"
    /\ sc_in \in ScaleInputs
    /\ sc_pt = sc_in.pt
    /\ sc_px = None

ScaleOnly == UNCHANGED <<pipeVars, maskVars, jacVars, polyVars>>

\* lines 49-52 and 60-61: the scalers, the scaled geometry, its pixel coordinates
ScaleTrain ==
    /\ sc_pc = "start"
    /\ ~FIsZero(sc_in.x_max) /\ ~FIsZero(sc_in.y_min)
    /\ LET s == get_scalers(sc_in.im_size, sc_in.x_max, sc_in.y_min)
           q == affinity_scale(sc_pt, s[1], s[2])
       IN  sc_pt' = q /\ sc_px' = int_coords(q)
    /\ sc_pc' = "scaled"
    /\ UNCHANGED sc_in
    /\ ScaleOnly

\* line 46 with x_max or y_min zero: ZeroDivisionError
ScaleZeroDivision ==
    /\ sc_pc = "start"
    /\ (FIsZero(sc_in.x_max) \/ FIsZero(sc_in.y_min))
    /\ sc_pc' = "failed"
    /\ UNCHANGED <<sc_in, sc_pt, sc_px>>
    /\ ScaleOnly

\* the scaling of lines 180-181, by the inverse factors, applied to the scaled
\* geometry: there and back
ScaleBack ==
    /\ sc_pc = "scaled"
    /\ LET s == get_scalers(sc_in.im_size, sc_in.x_max, sc_in.y_min)
           i == inverse_scalers(s)
       IN  sc_pt' = affinity_scale(sc_pt, i[1], i[2])
    /\ sc_pc' = "back"
    /\ UNCHANGED <<sc_in, sc_px>>
    /\ ScaleOnly

NextScale == ScaleTrain \/ ScaleZeroDivision \/ ScaleBack

SpecScale == InitScale /\ [][NextScale]_vars

(***************************************************************************)
(* mask_for_polygons (56-66) on one scan line of the image.  A ring is     *)
(* <<lo, hi>>: it crosses the scan line at the pixels lo and hi and        *)
(* encloses the pixels between them.  A polygon is an exterior ring and a  *)
(* set of interior rings.                                                  *)
(***************************************************************************)
MaskWidth == 5
MaxPolys  == 2

Pixels       == 0..(MaskWidth - 1)
Rings        == {r \in Pixels \X Pixels : r[1] <= r[2]}
RingEdge(r)  == {r[1], r[2]}
RingArea(r)  == r[1]..r[2]

\* the pixels of a polygon: inside its exterior, inside none of its interiors
PolyPixels(poly) ==
    {p \in RingArea(poly.exterior) : \A h \in poly.interiors : p \notin RingArea(h)}

\* shapely polygons: the interior rings (two at most here) lie strictly inside
\* the exterior ring and apart from each other
HoleSets(ext) ==
    LET inside == {h \in Rings : ext[1] < h[1] /\ h[2] < ext[2]}
    IN  {{}} \cup {{h} : h \in inside}
             \cup {{pr[1], pr[2]} :
                      pr \in {q \in inside \X inside : q[1][2] + 1 < q[2][1]}}

PolygonValues ==
    UNION {{[exterior |-> e, interiors |-> hs] : hs \in HoleSets(e)} : e \in Rings}

\* a valid MultiPolygon: no two members share a pixel
ValidMulti(ps) ==
    \A i, j \in 1..Len(ps) : i < j => PolyPixels(ps[i]) \cap PolyPixels(ps[j]) = {}

MultiPolygonValues ==
    {ps \in UNION {[1..n -> PolygonValues] : n \in 0..MaxPolys} : ValidMulti(ps)}

\* cv2.fillPoly(img, rings, color): the edges of every ring are drawn, and a
\* pixel enclosed by an odd number of the rings is filled (even-odd rule over
\* all the rings of the call)
fillPoly(img, rings, color) ==
    [p \in Pixels |->
        IF \/ \E i \in 1..Len(rings) : p \in RingEdge(rings[i])
           \/ Cardinality({i \in 1..Len(rings) : p \in RingArea(rings[i])}) % 2 = 1
        THEN color ELSE img[p]]

RECURSIVE SetToSeq(_)
SetToSeq(S) ==
    IF S = {} THEN <<>>
    ELSE LET x == CHOOSE y \in S : \A z \in S : y[1] <= z[1]
         IN  <<x>> \o SetToSeq(S \ {x})

RECURSIVE AllInteriors(_)
AllInteriors(ps) ==
    IF ps = <<>> THEN <<>>
    ELSE SetToSeq(Head(ps).interiors) \o AllInteriors(Tail(ps))

\* lines 56-66
mask_for_polygons(ps) ==
    LET zeros     == [p \in Pixels |-> 0]
        exteriors == [i \in 1..Len(ps) |-> ps[i].exterior]
        interiors == AllInteriors(ps)
    IN  IF Len(ps) = 0 THEN zeros
        ELSE fillPoly(fillPoly(zeros, exteriors, 1), interiors, 0)

InitMask ==
    /\ PipeIdle /\ ScaleIdle /\ JacIdle /\ PolyIdle
    /\ mk_pc = "start"
    /\ polygons \in MultiPolygonValues
    /\ img_mask = None

\* line 69 / line 176: a call of mask_for_polygons
MaskForPolygons ==
    /\ mk_pc = "start"
    /\ img_mask' = mask_for_polygons(polygons)
    /\ mk_pc' = "done"
    /\ UNCHANGED <<polygons, pipeVars, scaleVars, jacVars, polyVars>>

NextMask == MaskForPolygons

SpecMask == InitMask /\ [][NextMask]_vars

(***************************************************************************)
(* The pixel-level Jaccard of lines 121-130.  pred_binary_mask is a numpy  *)
(* bool array (line 122), train_mask a uint8 array (line 57).              *)
(***************************************************************************)
NPix == 4

Flat == 1..NPix

RECURSIVE BitAnd(_, _)
BitAnd(a, b) ==
    IF a = 0 \/ b = 0 THEN 0
    ELSE (a % 2) * (b % 2) + 2 * BitAnd(a \div 2, b \div 2)

\* a mask that holds 255 for True, as the one line 137 builds
BoolToUint8AllOnes(b) == IF b THEN 255 ELSE 0

\* numpy promotes a bool operand of a bool/uint8 operation to uint8
BoolToUint8(b) == IF b THEN 1 ELSE 0
\* ~ on uint8 is the bitwise complement, on bool the logical negation
InvertUint8(x) == 255 - x
InvertBool(b)  == ~b
\* bool_array & uint8_array, one element
AndBoolUint8(b, x) == BitAnd(BoolToUint8(b), x)

RECURSIVE SumTo(_, _)
SumTo(f, n) == IF n = 0 THEN 0 ELSE f[n] + SumTo(f, n - 1)
\* ndarray.sum()
ArraySum(f) == SumTo(f, NPix)

InitJaccard ==
    /\ PipeIdle /\ ScaleIdle /\ MaskIdle /\ PolyIdle
    /\ jc_pc = "start"
    /\ pred_binary_mask \in [Flat -> BOOLEAN]
    /\ train_mask \in [Flat -> {0, 1}]
    /\ tp = None /\ fp = None /\ fn = None

\* lines 127-129
PixelJaccard ==
    /\ jc_pc = "start"
    /\ tp' = ArraySum([p \in Flat |-> AndBoolUint8(pred_binary_mask[p], train_mask[p])])
    /\ fp' = ArraySum([p \in Flat |->
                 AndBoolUint8(pred_binary_mask[p], InvertUint8(train_mask[p]))])
    /\ fn' = ArraySum([p \in Flat |->
                 AndBoolUint8(InvertBool(pred_binary_mask[p]), train_mask[p])])
    /\ jc_pc' = "done"
    /\ UNCHANGED <<pred_binary_mask, train_mask, pipeVars, scaleVars, maskVars,
                   polyVars>>

NextJaccard == PixelJaccard

SpecJaccard == InitJaccard /\ [][NextJaccard]_vars

(***************************************************************************)
(* mask_to_polygons (134-171).  cv2.findContours hands back the contours   *)
(* and, per contour, its parent index in hierarchy[0][idx][3] (-1: none).  *)
(* A contour is [area, parent]: cv2.contourArea of its approximation and   *)
(* its parent index; contour idx is contours[idx + 1].                     *)
(***************************************************************************)
MaxContours == 3
min_area    == 10

Areas == {min_area - 1, min_area}

ContourLists ==
    UNION {[1..n -> [area : Areas, parent : -1..(n - 1)]] : n \in 0..MaxContours}

contourArea(cs, idx) == cs[idx + 1].area
parent_idx(cs, idx)  == cs[idx + 1].parent

\* lines 145-152: the set child_contours after the loop
child_contours(cs) == {idx \in 0..(Len(cs) - 1) : parent_idx(cs, idx) # -1}

\* lines 145-152: cnt_children.get(p, []) after the loop, the children of p
\* in the order the loop appended them
RECURSIVE cnt_children(_, _, _)
cnt_children(cs, p, n) ==
    IF n = 0 THEN <<>>
    ELSE cnt_children(cs, p, n - 1)
         \o (IF parent_idx(cs, n - 1) # -1 /\ parent_idx(cs, n - 1) = p
             THEN <<n - 1>> ELSE <<>>)

\* the shell test with > in place of >=
IsShellAboveMinArea(cs, idx) ==
    idx \notin child_contours(cs) /\ contourArea(cs, idx) > min_area

\* line 156: the test that makes contour idx the shell of a polygon
IsShell(cs, idx) ==
    idx \notin child_contours(cs) /\ contourArea(cs, idx) >= min_area

\* line 161: the test that keeps child c as a hole
KeepsHole(cs, c) == contourArea(cs, c) >= min_area

\* lines 160-161: the holes of the polygon whose shell is idx
holes(cs, idx) ==
    SelectSeq(cnt_children(cs, idx, Len(cs)), LAMBDA c : KeepsHole(cs, c))

\* lines 154-162: all_polygons after the loop over the first n contours
RECURSIVE build_polygons(_, _)
build_polygons(cs, n) ==
    IF n = 0 THEN <<>>
    ELSE build_polygons(cs, n - 1)
         \o (IF IsShell(cs, n - 1)
             THEN <<[shell |-> n - 1, holes |-> holes(cs, n - 1)]>>
             ELSE <<>>)

\* buffer(0) without lines 169-170
fix_invalid_unwrapped(buffer_type) == [type |-> buffer_type, geoms |-> "buffer(0)"]

\* lines 166-170: buffer(0) gives a Polygon or a MultiPolygon; a Polygon is
\* wrapped again
fix_invalid(buffer_type) ==
    IF buffer_type = "Polygon"
    THEN [type |-> "MultiPolygon", geoms |-> "buffer(0)"]
    ELSE [type |-> buffer_type, geoms |-> "buffer(0)"]

\* what GEOS answers: MultiPolygon.is_valid and, when it is not, the type of
\* buffer(0); an empty MultiPolygon is valid
GeosAnswers(cs) ==
    {[is_valid |-> TRUE, buffer_type |-> None]} \cup
    (IF build_polygons(cs, Len(cs)) = <<>> THEN {}
     ELSE [is_valid : {FALSE}, buffer_type : {"Polygon", "MultiPolygon"}])

InitPoly ==
    /\ PipeIdle /\ ScaleIdle /\ MaskIdle /\ JacIdle
    /\ mp_pc = "start"
    /\ contours \in ContourLists
    /\ buffered \in GeosAnswers(contours)
    /\ all_polygons = None
    /\ mp_ret = None

PolyOnly == UNCHANGED <<contours, buffered, pipeVars, scaleVars, maskVars, jacVars>>

\* lines 142-143: no contours
MaskToPolygonsEmpty ==
    /\ mp_pc = "start"
    /\ Len(contours) = 0
    /\ mp_ret' = [type |-> "MultiPolygon", geoms |-> <<>>]
    /\ mp_pc' = "done"
    /\ UNCHANGED all_polygons
    /\ PolyOnly

\* lines 144-165, 171: the collected MultiPolygon is valid
MaskToPolygonsValid ==
    /\ mp_pc = "start"
    /\ Len(contours) > 0
    /\ buffered.is_valid
    /\ all_polygons' = build_polygons(contours, Len(contours))
    /\ mp_ret' = [type |-> "MultiPolygon", geoms |-> all_polygons']
    /\ mp_pc' = "done"
    /\ PolyOnly

\* lines 144-171: it is not valid
MaskToPolygonsInvalid ==
    /\ mp_pc = "start"
    /\ Len(contours) > 0
    /\ ~buffered.is_valid
    /\ all_polygons' = build_polygons(contours, Len(contours))
    /\ mp_ret' = fix_invalid(buffered.buffer_type)
    /\ mp_pc' = "done"
    /\ PolyOnly

NextPoly == MaskToPolygonsEmpty \/ MaskToPolygonsValid \/ MaskToPolygonsInvalid

SpecPoly == InitPoly /\ [][NextPoly]_vars

(***************************************************************************)
(* The script as a whole: its statement groups in program order, the files *)
(* it opens and the exceptions that end it.  The library calls after the   *)
(* loading are taken to succeed on every input that reaches them.          *)
(***************************************************************************)
IM_ID     == "6120_2_2"
POLY_TYPE == "1"

GridPath  == "../data/grid_sizes.csv"
TrainPath == "../data/train_wkt_v4.csv"
ImagePath == "../data/three_band/6120_2_2.tif"
Paths     == {GridPath, TrainPath, ImagePath}

\* open(path, "w")
OpenModeWrite == "w"

\* open(path) of lines 24 and 31 and tiff.imread: read mode
OpenMode == "r"

Absent == [exists |-> FALSE, data |-> <<>>]
File(d) == [exists |-> TRUE, data |-> d]

\* the file system after open(path, mode): "w" creates or truncates the file
FsAfterOpen(f, path, mode) ==
    IF mode = "w" THEN [f EXCEPT ![path] = File(<<>>)] ELSE f
\* open(path, mode) raises: a file opened for reading must exist
OpenRaises(f, path, mode) == mode = "r" /\ ~f[path].exists
\* reading from the handle raises unless it was opened for reading
ReadRaises(mode) == mode # "r"

\* rows <<image id, Xmax, Ymin>> of grid_sizes.csv; the header line is one
\* more row whose id is not IM_ID
OtherId   == "6010_0_0"
GridFiles ==
    {<<>>,
     <<<<OtherId, <<5, 1>>, <<-5, 1>>>>>>,
     <<<<IM_ID, <<5, 1>>, <<-5, 1>>>>>>,
     <<<<OtherId, <<3, 1>>, <<-3, 1>>>>, <<IM_ID, <<9, 1000>>, <<-9, 1000>>>>>>,
     <<<<IM_ID, <<3, 1>>, <<-3, 1>>>>, <<IM_ID, <<5, 1>>, <<-5, 1>>>>>>,
     <<<<IM_ID, <<0, 1>>, <<-5, 1>>>>>>}

\* rows <<image id, class type, WKT>> of train_wkt_v4.csv
GoodWkt   == "MULTIPOLYGON (((...)))"
BadWkt    == "MULTIPOLYGON ((("
TrainFiles ==
    {<<>>,
     <<<<OtherId, "1", GoodWkt>>, <<IM_ID, "2", GoodWkt>>>>,
     <<<<OtherId, "1", GoodWkt>>, <<IM_ID, "2", GoodWkt>>, <<IM_ID, "1", GoodWkt>>>>,
     <<<<IM_ID, "2", BadWkt>>, <<IM_ID, "1", GoodWkt>>>>,
     <<<<IM_ID, "1", BadWkt>>, <<IM_ID, "1", GoodWkt>>>>}

\* the array shape (bands, height, width) tiff.imread returns
ImageFiles == {<<3, 1, 1>>, <<3, 2, 3>>}

FileSystems ==
    {[p \in Paths |-> IF p = GridPath THEN g ELSE IF p = TrainPath THEN t ELSE i] :
        g \in {Absent} \cup {File(d) : d \in GridFiles},
        t \in {Absent} \cup {File(d) : d \in TrainFiles},
        i \in {Absent} \cup {File(d) : d \in ImageFiles}}

\* lines 24-27: the first row whose id is IM_ID, or None
RECURSIVE grid_row(_)
grid_row(rows) ==
    IF rows = <<>> THEN None
    ELSE IF Head(rows)[1] = IM_ID THEN Head(rows)
    ELSE grid_row(Tail(rows))

\* lines 31-34: the first row of IM_ID and POLY_TYPE, or None
RECURSIVE train_row(_)
train_row(rows) ==
    IF rows = <<>> THEN None
    ELSE IF Head(rows)[1] = IM_ID /\ Head(rows)[2] = POLY_TYPE THEN Head(rows)
    ELSE train_row(Tail(rows))

\* wkt.loads raises on text that is no WKT
WktRaises(text) == text # GoodWkt

\* w_ / x_max of line 46 raises TypeError when the grid size is still None
ScalersRaiseType(xmax, ymin) == xmax = None \/ ymin = None

\* a scale that hands a None geometry on
ScaleAcceptsNone(geom) == FALSE

\* shapely.affinity.scale reads geom.is_empty / geom.type first: an
\* AttributeError when geom is None
ScaleRaises(geom) == geom = None

InitPipe ==
    /\ ScaleIdle /\ MaskIdle /\ JacIdle /\ PolyIdle
    /\ pc = "load_grid"
    /\ fs \in FileSystems
    /\ opened = [p \in Paths |-> 0]
    /\ x_max = None /\ y_min = None
    /\ train_polygons = None
    /\ im_size = None
    /\ scalers = None
    /\ stages = <<>>
    /\ stdout = <<>>
    /\ error = None

PipeOnly == UNCHANGED <<scaleVars, maskVars, jacVars, polyVars>>

Raise(exc) == pc' = "failed" /\ error' = exc

\* lines 23-27
LoadGridSizes ==
    /\ pc = "load_grid"
    /\ opened' = [opened EXCEPT ![GridPath] = @ + 1]
    /\ fs' = FsAfterOpen(fs, GridPath, OpenMode)
    /\ IF OpenRaises(fs, GridPath, OpenMode)
       THEN Raise("IOError") /\ UNCHANGED <<x_max, y_min>>
       ELSE IF ReadRaises(OpenMode)
       THEN Raise("UnsupportedOperation") /\ UNCHANGED <<x_max, y_min>>
       ELSE LET row == grid_row(fs'[GridPath].data)
            IN  /\ x_max' = IF row = None THEN None ELSE ParseFloat(row[2])
                /\ y_min' = IF row = None THEN None ELSE ParseFloat(row[3])
                /\ pc' = "load_poly"
                /\ UNCHANGED error
    /\ UNCHANGED <<train_polygons, im_size, scalers, stages, stdout>>
    /\ PipeOnly

\* lines 30-34
LoadTrainPoly ==
    /\ pc = "load_poly"
    /\ opened' = [opened EXCEPT ![TrainPath] = @ + 1]
    /\ fs' = FsAfterOpen(fs, TrainPath, OpenMode)
    /\ IF OpenRaises(fs, TrainPath, OpenMode)
       THEN Raise("IOError") /\ UNCHANGED train_polygons
       ELSE IF ReadRaises(OpenMode)
       THEN Raise("UnsupportedOperation") /\ UNCHANGED train_polygons
       ELSE LET row == train_row(fs'[TrainPath].data)
            IN  IF row # None /\ WktRaises(row[3])
                THEN Raise("WKTReadingError") /\ UNCHANGED train_polygons
                ELSE /\ train_polygons' = IF row = None THEN None ELSE "MultiPolygon"
                     /\ pc' = "read_image"
                     /\ UNCHANGED error
    /\ UNCHANGED <<x_max, y_min, im_size, scalers, stages, stdout>>
    /\ PipeOnly

\* lines 37-38
ReadImage ==
    /\ pc = "read_image"
    /\ opened' = [opened EXCEPT ![ImagePath] = @ + 1]
    /\ fs' = FsAfterOpen(fs, ImagePath, OpenMode)
    /\ IF OpenRaises(fs, ImagePath, OpenMode)
       THEN Raise("IOError") /\ UNCHANGED <<im_size, stages>>
       ELSE IF ReadRaises(OpenMode)
       THEN Raise("UnsupportedOperation") /\ UNCHANGED <<im_size, stages>>
       ELSE LET shape == fs'[ImagePath].data    \* transpose([1, 2, 0]).shape[:2]
            IN  /\ im_size' = <<shape[2], shape[3]>>
                /\ stages' = Append(stages, "load")
                /\ pc' = "get_scalers"
                /\ UNCHANGED error
    /\ UNCHANGED <<x_max, y_min, train_polygons, scalers, stdout>>
    /\ PipeOnly

\* line 49
GetScalers ==
    /\ pc = "get_scalers"
    /\ IF ScalersRaiseType(x_max, y_min)
       THEN Raise("TypeError") /\ UNCHANGED scalers
       ELSE IF FIsZero(x_max) \/ FIsZero(y_min)
       THEN Raise("ZeroDivisionError") /\ UNCHANGED scalers
       ELSE /\ scalers' = get_scalers(im_size, x_max, y_min)
            /\ pc' = "scale_train"
            /\ UNCHANGED error
    /\ UNCHANGED <<fs, opened, x_max, y_min, train_polygons, im_size, stages, stdout>>
    /\ PipeOnly

\* lines 51-52
ScaleTrainPolygons ==
    /\ pc = "scale_train"
    /\ IF ScaleRaises(train_polygons)
       THEN Raise("AttributeError")
       ELSE pc' = "train_mask" /\ UNCHANGED error
    /\ UNCHANGED <<fs, opened, x_max, y_min, train_polygons, im_size, scalers,
                   stages, stdout>>
    /\ PipeOnly

\* a statement group that only moves on, completes a stage or prints
Step(to, stage, printed) ==
    /\ pc' = to
    /\ stages' = stages \o stage
    /\ stdout' = stdout \o printed
    /\ UNCHANGED <<fs, opened, x_max, y_min, train_polygons, im_size, scalers, error>>
    /\ PipeOnly

\* line 69: train_mask; "not polygons" would let a None through as an empty mask
BuildTrainMask ==
    pc = "train_mask" /\ Step("show", <<"train_mask">>, <<>>)

\* lines 86-97: the image and the mask on screen
ShowImageAndMask ==
    pc = "show" /\ Step("train", <<>>, <<>>)

\* lines 106-112
Train ==
    pc = "train" /\ Step("predict", <<"train">>, <<"training...">>)

\* lines 113-118
Predict ==
    pc = "predict" /\ Step("pixel_jaccard", <<"predict">>, <<"average precision">>)

\* lines 121-130
PrintPixelJaccard ==
    pc = "pixel_jaccard" /\ Step("vectorize", <<>>, <<"Pixel jaccard">>)

\* lines 175-177
Vectorize ==
    pc = "vectorize" /\ Step("scale_back", <<"vectorize">>, <<>>)

\* lines 180-186 with grid_sizes.csv opened again for the scaling back
ScaleBackAndDumpReloadsGrid ==
    /\ pc = "scale_back"
    /\ pc' = "final_jaccard"
    /\ opened' = [opened EXCEPT ![GridPath] = @ + 1]
    /\ stdout' = stdout \o <<"Prediction size">>
    /\ UNCHANGED <<fs, x_max, y_min, train_polygons, im_size, scalers, stages, error>>
    /\ PipeOnly

\* lines 180-186: wkt.dumps gives a string, nothing is written
ScaleBackAndDump ==
    pc = "scale_back" /\ Step("final_jaccard", <<>>, <<"Prediction size">>)

\* lines 189-191
FinalJaccard ==
    pc = "final_jaccard" /\ Step("done", <<"score">>, <<"Final jaccard">>)

Next ==
    \/ LoadGridSizes \/ LoadTrainPoly \/ ReadImage \/ GetScalers
    \/ ScaleTrainPolygons \/ BuildTrainMask \/ ShowImageAndMask \/ Train
    \/ Predict \/ PrintPixelJaccard \/ Vectorize \/ ScaleBackAndDump
    \/ FinalJaccard

Init == InitPipe

Spec == Init /\ [][Next]_vars

(***************************************************************************)
(* Properties                                                              *)
(***************************************************************************)
StageOrder == <<"load", "train_mask", "train", "predict", "vectorize", "score">>

IsPrefix(s, t) == Len(s) <= Len(t) /\ \A i \in 1..Len(s) : s[i] = t[i]

\* C1: the stages complete once each and in the order load, training mask,
\* train, predict, vectorize, score; no file is opened twice, every file has
\* been opened exactly once when the load stage is complete, and none is
\* opened afterwards; a run that completes has completed all six stages.
C1_StagesInOrderFilesOnce ==
    /\ IsPrefix(stages, StageOrder)
    /\ \A p \in Paths : opened[p] <= 1
    /\ stages # <<>> => \A p \in Paths : opened[p] = 1
    /\ pc = "done" => stages = StageOrder

C1_Witness ==
    pc = "done" /\ stages = StageOrder /\ \A p \in Paths : opened[p] = 1

BadInput ==
    \/ \E p \in Paths : ~fs[p].exists
    \/ grid_row(fs[GridPath].data) = None
    \/ train_row(fs[TrainPath].data) = None
    \/ WktRaises(train_row(fs[TrainPath].data)[3])

\* C2: with a missing file, no grid row of IM_ID, no polygon row of IM_ID and
\* POLY_TYPE, or malformed WKT in the selected row, the run gets no further
\* than the scaling of the training polygons before it fails: it completes
\* no stage after the loading, prints neither Jaccard and never completes.
C2_BadInputFailsBeforeTraining ==
    BadInput =>
        /\ pc \in {"load_grid", "load_poly", "read_image", "get_scalers",
                   "scale_train", "failed"}
        /\ pc = "failed" => error # None
        /\ IsPrefix(stages, <<"load">>)
        /\ \A i \in 1..Len(stdout) : stdout[i] \notin {"Pixel jaccard", "Final jaccard"}

C2_Witness ==
    /\ pc = "failed" /\ error = "AttributeError"
    /\ train_polygons = None /\ x_max # None
    /\ \A p \in Paths : fs[p].exists

\* C3: no step changes the file system.
C3_NoDiskWrites == [][fs' = fs]_vars

C3_Witness ==
    /\ pc = "done"
    /\ stdout = <<"training...", "average precision", "Pixel jaccard",
                  "Prediction size", "Final jaccard">>

\* C4: tp, fp and fn are the numbers of pixels set in both masks, in the
\* prediction only and in the training mask only; they add up to the number
\* of pixels set in either, so tp / (tp + fp + fn) is the
\* intersection-over-union and lies between 0 and 1.
C4_PixelJaccardIsIoU ==
    jc_pc = "done" =>
        LET P == {p \in Flat : pred_binary_mask[p]}
            T == {p \in Flat : train_mask[p] = 1}
        IN  /\ tp = Cardinality(P \cap T)
            /\ fp = Cardinality(P \ T)
            /\ fn = Cardinality(T \ P)
            /\ tp + fp + fn = Cardinality(P \cup T)
            /\ tp + fp + fn > 0 => 0 <= tp /\ tp <= tp + fp + fn

C4_Witness == jc_pc = "done" /\ tp > 0 /\ fp > 0 /\ fn > 0

\* C5: every mask value is 0 or 1, and a pixel is 1 exactly when it lies in
\* some input polygon (inside its exterior ring, inside none of its own
\* interior rings); the mask of an empty collection is all 0.
C5_MaskMarksMembership ==
    mk_pc = "done" =>
        /\ \A p \in Pixels : img_mask[p] \in {0, 1}
        /\ \A p \in Pixels :
              img_mask[p] = 1 <=>
                  \E i \in 1..Len(polygons) : p \in PolyPixels(polygons[i])

\* the polygons built: none on the early return of line 143
Built == IF Len(contours) = 0 THEN <<>> ELSE all_polygons

TopLevel(idx) == contours[idx + 1].parent = -1
BigEnough(idx) == contours[idx + 1].area >= min_area
Indices == 0..(Len(contours) - 1)

\* C6: the polygons built are one per contour without a parent and of area
\* >= min_area, in contour order; the holes of each are exactly the contours
\* whose parent is its shell and whose area is >= min_area; a contour with a
\* parent is never a shell, and the children of a shell the filter drops are
\* in no polygon.
C6_ShellsAndHolesByHierarchy ==
    mp_pc = "done" =>
        /\ {Built[k].shell : k \in 1..Len(Built)}
               = {i \in Indices : TopLevel(i) /\ BigEnough(i)}
        /\ \A k, l \in 1..Len(Built) : k < l => Built[k].shell < Built[l].shell
        /\ \A k \in 1..Len(Built) :
              LET hs == Built[k].holes
              IN  /\ {hs[n] : n \in 1..Len(hs)}
                         = {j \in Indices : /\ contours[j + 1].parent = Built[k].shell
                                            /\ BigEnough(j)}
                  /\ \A m, n \in 1..Len(hs) : m < n => hs[m] < hs[n]
        /\ \A j \in Indices :
              (~TopLevel(j) /\ ~\E k \in 1..Len(Built) :
                                   Built[k].shell = contours[j + 1].parent)
              => \A k \in 1..Len(Built) :
                     /\ Built[k].shell # j
                     /\ \A n \in 1..Len(Built[k].holes) : Built[k].holes[n] # j

C6_Witness ==
    /\ mp_pc = "done"
    /\ Len(Built) > 0
    /\ \E i, j \in Indices :
          /\ TopLevel(i) /\ ~BigEnough(i)
          /\ contours[j + 1].parent = i /\ BigEnough(j)

\* C7: mask_to_polygons returns a MultiPolygon on every path: an empty one
\* when there are no contours, the collected one when it is valid, and the
\* result of buffer(0), wrapped again if need be, when it is not.
C7_AlwaysMultiPolygon ==
    mp_pc = "done" =>
        /\ mp_ret.type = "MultiPolygon"
        /\ Len(contours) = 0 => mp_ret.geoms = <<>>
        /\ (Len(contours) > 0 /\ buffered.is_valid) => mp_ret.geoms = all_polygons
        /\ ~buffered.is_valid => mp_ret.geoms = "buffer(0)"

C7_Witness ==
    /\ mp_pc = "done"
    /\ ~buffered.is_valid /\ buffered.buffer_type = "Polygon"
    /\ mp_ret.type = "MultiPolygon"

\* |a - b| <= 2^(2 - Precision) * |b|, exactly
WithinRounding(a, b) ==
    LET e == IF a[2] < b[2] THEN a[2] ELSE b[2]
        A == a[1] * Pow2(a[2] - e)
        B == b[1] * Pow2(b[2] - e)
    IN  Abs(A - B) * Pow2(Precision - 2) <= Abs(B)

ScalersOf(in) == get_scalers(in.im_size, in.x_max, in.y_min)

\* C8 as stated: scaling by the scalers and then by their inverses gives
\* back the very coordinates.
C8_RoundTripIsIdentity ==
    sc_pc = "back" => sc_pt = sc_in.pt

\* C8 as amended: the scalers are non-zero, and scaling by them and then by
\* their inverses gives back each coordinate to within the rounding of the
\* three floating-point operations, a relative error of 2^(2 - Precision).
C8_RoundTripWithinRounding ==
    /\ sc_pc \in {"scaled", "back"} =>
          ~FIsZero(ScalersOf(sc_in)[1]) /\ ~FIsZero(ScalersOf(sc_in)[2])
    /\ sc_pc = "back" =>
          /\ WithinRounding(sc_pt[1], sc_in.pt[1])
          /\ WithinRounding(sc_pt[2], sc_in.pt[2])

C8_Witness ==
    sc_pc = "back" /\ sc_pt[1] # sc_in.pt[1] /\ sc_pt[2] # sc_in.pt[2]

FZero == <<0, 0>>

\* x <= y, exactly
FLe(x, y) ==
    LET e == IF x[2] < y[2] THEN x[2] ELSE y[2]
    IN  x[1] * Pow2(x[2] - e) <= y[1] * Pow2(y[2] - e)

InsideGrid(in) ==
    /\ FLe(FZero, in.pt[1]) /\ FLe(in.pt[1], in.x_max)
    /\ \/ FLe(in.y_min, in.pt[2]) /\ FLe(in.pt[2], FZero)
       \/ FLe(FZero, in.pt[2]) /\ FLe(in.pt[2], in.y_min)

\* C9: a point with 0 <= x <= x_max and y between y_min and 0 is scaled and
\* rounded to a column in 0..w-1 and a row in 0..h-1, w the second and h the
\* first dimension of the image.
C9_VerticesInsideMask ==
    (sc_pc = "scaled" /\ InsideGrid(sc_in)) =>
        /\ 0 <= sc_px[1] /\ sc_px[1] <= sc_in.im_size[2] - 1
        /\ 0 <= sc_px[2] /\ sc_px[2] <= sc_in.im_size[1] - 1

C9_Witness ==
    /\ sc_pc = "scaled"
    /\ InsideGrid(sc_in)
    /\ sc_in.pt = <<sc_in.x_max, sc_in.y_min>>
    /\ sc_in.im_size[1] # sc_in.im_size[2]
    /\ sc_px = <<sc_in.im_size[2] - 1, sc_in.im_size[1] - 1>>

====
